---- MODULE Spec2Model ----
(***************************************************************************)
(* Answer resolution pipeline of the math assistant:                       *)
(*   src/src/solver.py                 solve_math_problem                  *)
(*   src/src/explanation_generator.py  generate_explanation                *)
(*   src/frontend/streamlit_app.py     _is_empty, _sympy_fallback, Solve   *)
(* Strings are sequences of one-character strings.  The computer-algebra   *)
(* library is an oracle: the record cas fixes what each of its operations  *)
(* answers (or that it raises) for the problem at hand.                    *)
(***************************************************************************)
EXTENDS Naturals, Sequences, FiniteSets

VARIABLES problem, cas, pc, solved, raw, display_text, latex_text, fb, explanation

vars == <<problem, cas, pc, solved, raw, display_text, latex_text, fb, explanation>>

(***************************************************************************)
(* Bounds of the model.                                                    *)
(***************************************************************************)
MaxSols == 2
MaxVars == 2
MaxFaults == 2
MaxMsgLen == 2

(***************************************************************************)
(* Python string operations used by the code.                              *)
(***************************************************************************)
Whitespace == {" ", "\n", "\t"}

RECURSIVE LStrip(_)
LStrip(s) ==
  IF s = <<>> THEN <<>>
  ELSE IF Head(s) \in Whitespace THEN LStrip(Tail(s)) ELSE s

RECURSIVE RStrip(_)
RStrip(s) ==
  IF s = <<>> THEN <<>>
  ELSE IF s[Len(s)] \in Whitespace THEN RStrip(SubSeq(s, 1, Len(s) - 1)) ELSE s

\* str.strip()
Strip(s) == RStrip(LStrip(s))

RECURSIVE SplitFrom(_, _, _)
SplitFrom(s, cur, lines) ==
  IF s = <<>> THEN (IF cur = <<>> THEN lines ELSE Append(lines, cur))
  ELSE IF Head(s) = "\n" THEN SplitFrom(Tail(s), <<>>, Append(lines, cur))
  ELSE SplitFrom(Tail(s), Append(cur, Head(s)), lines)

\* str.splitlines()
SplitLines(s) == SplitFrom(s, <<>>, <<>>)

RECURSIVE Join(_, _)
\* sep.join(parts)
Join(sep, parts) ==
  IF parts = <<>> THEN <<>>
  ELSE IF Len(parts) = 1 THEN parts[1]
  ELSE parts[1] \o sep \o Join(sep, Tail(parts))

RECURSIVE EscapeBraces(_)
\* msg.replace("}", r"\}")
EscapeBraces(s) ==
  IF s = <<>> THEN <<>>
  ELSE (IF Head(s) = "}" THEN <<"\\", "}">> ELSE <<Head(s)>>) \o EscapeBraces(Tail(s))

\* s.startswith(p)
StartsWith(s, p) == Len(s) >= Len(p) /\ SubSeq(s, 1, Len(p)) = p

\* s.endswith(p)
EndsWith(s, p) == Len(s) >= Len(p) /\ SubSeq(s, Len(s) - Len(p) + 1, Len(s)) = p

(***************************************************************************)
(* String literals of the code.                                            *)
(***************************************************************************)
ErrorPrefix == <<"E", "r", "r", "o", "r", ":", " ">>
TextOpen == <<"\\", "t", "e", "x", "t", "{">>
TextClose == <<"}">>
PlusC == <<" ", "+", " ", "C">>
NoSolution == <<"N", "o", " ", "s", "o", "l", "u", "t", "i", "o", "n">>
NoSolutionLatex == TextOpen \o NoSolution \o TextClose
CommaSep == <<",", " ">>
LatexSep == <<"\\", ";", " ", ",", " ", "\\", ";", " ">>
EqSep == <<" ", "=", " ">>
FallbackErrorPrefix ==
  <<"E", "r", "r", "o", "r", " ", "d", "u", "r", "i", "n", "g", " ",
    "f", "a", "l", "l", "b", "a", "c", "k", ":", " ">>
FallbackErrorLatex ==
  TextOpen \o <<"E", "r", "r", "o", "r", " ", "d", "u", "r", "i", "n", "g", " ",
                "f", "a", "l", "l", "b", "a", "c", "k">> \o TextClose
SolverRaisedPrefix ==
  ErrorPrefix \o <<"s", "o", "l", "v", "e", "r", " ", "r", "a", "i", "s", "e", "d", " ",
                   "e", "x", "c", "e", "p", "t", "i", "o", "n", ":", " ">>
empties ==
  { <<"[", "]">>, <<"(", ")">>, <<"T", "u", "p", "l", "e", "(", ")">>,
    <<"N", "o", "n", "e">>, <<"N", "o", "n", "e", "T", "y", "p", "e">> }

Chars ==
  { "a", "x", "y", "4", ".", "0", " ", "\n", "\t", "}", "{", "\\", "[", "]", "(", ")",
    "+", "=", ",", ";", ":", "C", "E", "N", "T", "b", "c", "d", "e", "f", "g", "i", "k",
    "l", "n", "o", "p", "r", "s", "t", "u", "v" }

(***************************************************************************)
(* The computer-algebra oracle.  An object is "expr" (a general symbolic   *)
(* result), "number" (an exact Number) or "float" (the result of sp.N on a *)
(* Number).  c.faults is the set of library operations that raise when     *)
(* called, each with message c.emsg.  What the library raises is an error  *)
(* derived from Exception, and a text the parser accepts yields an         *)
(* expression (it has free_symbols and doit).                              *)
(***************************************************************************)
Ops == {"sympify", "doit", "solve", "simplify", "N", "pretty", "str", "latex"}
Kinds == {"Derivative", "Integral", "Equality", "Other"}
Shapes == {"Derivative", "Integral", "Equality", "Constant", "Symbols"}

NumText == <<"4">>
NumEval == <<"4", ".", "0">>
StrText == <<"a">>
VarNames == << <<"x">>, <<"y">>, <<"x", "y">> >>

\* the object a forced evaluation, a simplification or a solution value yields
ResultObj(c) == IF c.isNumber THEN "number" ELSE "expr"
is_Number(o) == o # "expr"
\* sp.N(obj)
N(o) == IF is_Number(o) THEN "float" ELSE o
\* sp.pretty(obj)
pretty(c, o) == IF o = "expr" THEN c.prettyText ELSE IF o = "number" THEN NumText ELSE NumEval
\* sp.latex(obj)
latex(c, o) == IF o = "expr" THEN c.latexText ELSE IF o = "number" THEN NumText ELSE NumEval
\* str(obj)
str(c, o) == IF o = "expr" THEN StrText ELSE IF o = "number" THEN NumText ELSE NumEval
\* sp.latex(sp.Eq(var, val))
latexEq(c, j, o) == VarNames[j] \o EqSep \o latex(c, o)

Raised(op) == [raised |-> TRUE, op |-> op, text |-> <<>>]
Value(t) == [raised |-> FALSE, op |-> "none", text |-> t]

\* " ".join(line.strip() for line in text.splitlines())
JoinLines(text) ==
  LET lines == SplitLines(text)
  IN Join(<<" ">>, [i \in 1..Len(lines) |-> Strip(lines[i])])

\* _sympy_to_display: the except branch falls back to str(obj)
sympy_to_display(c, o) ==
  LET viaStr == IF "str" \in c.faults THEN Raised("str") ELSE Value(str(c, o))
  IN IF is_Number(o)
     THEN IF "N" \in c.faults \/ "str" \in c.faults THEN viaStr ELSE Value(str(c, N(o)))
     ELSE IF "pretty" \in c.faults THEN viaStr ELSE Value(JoinLines(pretty(c, o)))

RECURSIVE Flatten(_)
Flatten(ss) == IF ss = <<>> THEN <<>> ELSE Head(ss) \o Flatten(Tail(ss))

\* one entry per (solution dict, variable) pair, in iteration order
SolutionVars(c) == Flatten([i \in 1..Len(c.sols) |-> [j \in 1..c.sols[i] |-> j]])

(***************************************************************************)
(* solve_math_problem                                                      *)
(***************************************************************************)
Fail(shape, op) ==
  [raised |-> TRUE, op |-> op, shape |-> shape, display |-> <<>>, latex |-> <<>>]
Done(shape, d, l) ==
  [raised |-> FALSE, op |-> "none", shape |-> shape, display |-> d, latex |-> l]

\* a classifier that tests the parsed node kinds before the substrings
SolverShapeStructuralFirst(p, c) ==
  IF c.kind = "Derivative" THEN "Derivative"
  ELSE IF c.kind = "Integral" THEN "Integral"
  ELSE IF c.kind = "Equality" THEN "Equality"
  ELSE IF p.hasDiff THEN "Derivative"
  ELSE IF p.hasInt THEN "Integral"
  ELSE IF ~c.free THEN "Constant"
  ELSE "Symbols"

\* the branch chosen at lines 29, 36, 44, 61, 68
SolverShape(p, c) ==
  IF c.kind = "Derivative" \/ p.hasDiff THEN "Derivative"
  ELSE IF c.kind = "Integral" \/ p.hasInt THEN "Integral"
  ELSE IF c.kind = "Equality" THEN "Equality"
  ELSE IF ~c.free THEN "Constant"
  ELSE "Symbols"

\* render one object with _sympy_to_display and sp.latex
Render(c, shape, o, suffix) ==
  LET d == sympy_to_display(c, o)
  IN IF d.raised THEN Fail(shape, d.op)
     ELSE IF "latex" \in c.faults THEN Fail(shape, "latex")
     ELSE Done(shape, d.text \o suffix, latex(c, o) \o suffix)

DerivativeHandler(c) ==
  IF "doit" \in c.faults THEN Fail("Derivative", "doit")
  ELSE Render(c, "Derivative", ResultObj(c), <<>>)

\* an Integral handler that appends the suffix to the display only
IntegralHandlerDisplayOnly(c) ==
  IF "doit" \in c.faults THEN Fail("Integral", "doit")
  ELSE LET r == Render(c, "Integral", ResultObj(c), <<>>)
       IN IF r.raised THEN r ELSE Done("Integral", r.display \o PlusC, r.latex)

IntegralHandler(c) ==
  IF "doit" \in c.faults THEN Fail("Integral", "doit")
  ELSE Render(c, "Integral", ResultObj(c), PlusC)

\* the joined "var = value" list of lines 49-58 and 76-80
SolutionList(c, shape, vs) ==
  LET d == sympy_to_display(c, ResultObj(c))
  IN IF vs = <<>> THEN Done(shape, <<>>, <<>>)
     ELSE IF "str" \in c.faults THEN Fail(shape, "str")
     ELSE IF d.raised THEN Fail(shape, d.op)
     ELSE IF "latex" \in c.faults THEN Fail(shape, "latex")
     ELSE Done(shape,
               Join(CommaSep, [k \in 1..Len(vs) |-> VarNames[vs[k]] \o EqSep \o d.text]),
               Join(LatexSep, [k \in 1..Len(vs) |-> latexEq(c, vs[k], ResultObj(c))]))

\* an Equality handler without the "if not sol" test of line 46
EqualityHandlerNoEmptyTest(c) ==
  IF "solve" \in c.faults THEN Fail("Equality", "solve")
  ELSE SolutionList(c, "Equality", SolutionVars(c))

EqualityHandler(c) ==
  IF "solve" \in c.faults THEN Fail("Equality", "solve")
  ELSE IF c.sols = <<>> THEN Done("Equality", NoSolution, NoSolutionLatex)
  ELSE SolutionList(c, "Equality", SolutionVars(c))

ConstantHandler(c) ==
  IF "simplify" \in c.faults THEN Fail("Constant", "simplify")
  ELSE IF "N" \in c.faults THEN Fail("Constant", "N")
  ELSE Render(c, "Constant", N(ResultObj(c)), <<>>)

SymbolsHandler(c) ==
  IF "solve" \in c.faults THEN Fail("Symbols", "solve")
  ELSE IF c.sols # <<>>
       THEN IF c.listForm
            THEN SolutionList(c, "Symbols", [k \in 1..Len(c.sols) |-> 1])
            ELSE SolutionList(c, "Symbols", <<1>>)
       ELSE IF "simplify" \in c.faults THEN Fail("Symbols", "simplify")
       ELSE Render(c, "Symbols", ResultObj(c), <<>>)

\* the try block, lines 25-90
solve_body(p, c) ==
  IF "sympify" \in c.faults THEN Fail("none", "sympify")
  ELSE LET shape == SolverShape(p, c)
       IN CASE shape = "Derivative" -> DerivativeHandler(c)
            [] shape = "Integral" -> IntegralHandler(c)
            [] shape = "Equality" -> EqualityHandler(c)
            [] shape = "Constant" -> ConstantHandler(c)
            [] shape = "Symbols" -> SymbolsHandler(c)

RECURSIVE EscapeFirstBrace(_)
\* msg.replace("}", r"\}", 1)
EscapeFirstBrace(s) ==
  IF s = <<>> THEN <<>>
  ELSE IF Head(s) = "}" THEN <<"\\", "}">> \o Tail(s)
  ELSE <<Head(s)>> \o EscapeFirstBrace(Tail(s))

\* an except branch that escapes only the first closing brace
error_result_first_brace(e) ==
  LET msg == ErrorPrefix \o e
  IN <<msg, TextOpen \o EscapeFirstBrace(msg) \o TextClose>>

\* the except branch, lines 92-96
error_result(e) ==
  LET msg == ErrorPrefix \o e
  IN <<msg, TextOpen \o EscapeBraces(msg) \o TextClose>>

\* what a call leaves its caller with: a returned pair, or a propagating exception
Returned(b, d, l) ==
  [ret |-> "tuple", display |-> d, latex |-> l, shape |-> b.shape,
   caught |-> b.raised, op |-> b.op]
Propagated(b) ==
  [ret |-> "raise", display |-> <<>>, latex |-> <<>>, shape |-> b.shape,
   caught |-> FALSE, op |-> b.op]

\* an except clause that names the parser's error only
CatchesParseErrorOnly(op) == op = "sympify"

\* except Exception catches everything the library raises
Catches(op) == TRUE

solve_math_problem(p, c) ==
  LET b == solve_body(p, c)
  IN IF ~b.raised THEN Returned(b, b.display, b.latex)
     ELSE IF Catches(b.op)
          THEN Returned(b, error_result(c.emsg)[1], error_result(c.emsg)[2])
          ELSE Propagated(b)

(***************************************************************************)
(* _is_empty and _sympy_fallback of the front end                          *)
(***************************************************************************)
\* _is_empty(s) for a string s
is_empty(s) == Strip(s) = <<>> \/ Strip(s) \in empties

\* the branch _sympy_fallback chooses at lines 41, 45, 50, 55
FallbackShape(p, c) ==
  IF c.kind = "Derivative" \/ p.hasDiff THEN "Derivative"
  ELSE IF c.kind = "Integral" \/ p.hasInt THEN "Integral"
  ELSE IF ~c.free THEN "Constant"
  ELSE "Symbols"

\* (str(sp.pretty(o)) + suffix, str(sp.latex(o)) + suffix)
FallbackRender(c, shape, o, suffix) ==
  IF "pretty" \in c.faults THEN Fail(shape, "pretty")
  ELSE IF "latex" \in c.faults THEN Fail(shape, "latex")
  ELSE Done(shape, pretty(c, o) \o suffix, latex(c, o) \o suffix)

\* lines 58-65: the roots of expr = 0 for the first symbol
FallbackRoots(c, n) ==
  IF "str" \in c.faults THEN Fail("Symbols", "str")
  ELSE IF "pretty" \in c.faults THEN Fail("Symbols", "pretty")
  ELSE IF "latex" \in c.faults THEN Fail("Symbols", "latex")
  ELSE Done("Symbols",
            Join(CommaSep, [k \in 1..n |-> VarNames[1] \o EqSep \o pretty(c, ResultObj(c))]),
            Join(LatexSep, [k \in 1..n |-> latexEq(c, 1, ResultObj(c))]))

\* the try block, lines 37-69
fallback_body(p, c) ==
  IF "sympify" \in c.faults THEN Fail("none", "sympify")
  ELSE LET shape == FallbackShape(p, c)
       IN CASE shape = "Derivative" ->
                 IF "doit" \in c.faults THEN Fail(shape, "doit")
                 ELSE FallbackRender(c, shape, ResultObj(c), <<>>)
            [] shape = "Integral" ->
                 IF "doit" \in c.faults THEN Fail(shape, "doit")
                 ELSE FallbackRender(c, shape, ResultObj(c), PlusC)
            [] shape = "Constant" ->
                 IF "simplify" \in c.faults THEN Fail(shape, "simplify")
                 ELSE IF "N" \in c.faults THEN Fail(shape, "N")
                 ELSE FallbackRender(c, shape, N(ResultObj(c)), <<>>)
            [] shape = "Symbols" ->
                 IF "solve" \in c.faults THEN Fail(shape, "solve")
                 ELSE IF c.sols # <<>>
                      THEN FallbackRoots(c, IF c.listForm THEN Len(c.sols) ELSE 1)
                      ELSE IF "simplify" \in c.faults THEN Fail(shape, "simplify")
                      ELSE FallbackRender(c, shape, ResultObj(c), <<>>)

sympy_fallback(p, c) ==
  LET b == fallback_body(p, c)
  IN IF b.raised
     THEN Returned(b, FallbackErrorPrefix \o c.emsg, FallbackErrorLatex)
     ELSE Returned(b, b.display, b.latex)

(***************************************************************************)
(* generate_explanation: the branch taken and whether the walkthrough      *)
(* could be produced                                                       *)
(***************************************************************************)
\* the branch chosen at lines 26, 36, 47, 59, 77
ExplanationShape(p, c) ==
  IF ~c.free /\ c.kind \notin {"Derivative", "Integral", "Equality"} THEN "Constant"
  ELSE IF c.kind = "Derivative" \/ p.hasDiff THEN "Derivative"
  ELSE IF c.kind = "Integral" \/ p.hasInt THEN "Integral"
  ELSE IF c.kind = "Equality" THEN "Equality"
  ELSE "Symbols"

\* the library calls of each branch, in the order the code makes them
ExplanationCalls(shape, c) ==
  CASE shape = "Constant" -> <<"simplify", "N", "str", "latex">>
    [] shape = "Derivative" -> <<"doit", "pretty", "latex">>
    [] shape = "Integral" -> <<"doit", "pretty", "latex">>
    [] shape = "Equality" ->
         IF c.sols = <<>> THEN <<"simplify", "latex", "solve">>
         ELSE <<"simplify", "latex", "solve", "str", "latex">>
    [] shape = "Symbols" ->
         IF c.sols = <<>> THEN <<"str", "latex", "solve", "simplify", "latex">>
         ELSE <<"str", "latex", "solve", "latex">>

generate_explanation(p, c) ==
  IF "sympify" \in c.faults THEN [branch |-> "none", failed |-> TRUE]
  ELSE LET shape == ExplanationShape(p, c)
           calls == ExplanationCalls(shape, c)
       IN [branch |-> shape,
           failed |-> \E k \in 1..Len(calls) : calls[k] \in c.faults]

(***************************************************************************)
(* The Solve button handler, lines 73-146                                  *)
(***************************************************************************)
NoCall == [ret |-> "none", display |-> <<>>, latex |-> <<>>, shape |-> "none",
           caught |-> FALSE, op |-> "none"]
NoRaw == [type |-> "unset", d |-> <<>>, l |-> <<>>]
NoExplanation == [branch |-> "unset", failed |-> FALSE]

\* lines 78-81: the solver's return value, or the message of what it raised
RawOf(r, c) ==
  IF r.ret = "tuple" THEN [type |-> "tuple", d |-> r.display, l |-> r.latex]
  ELSE [type |-> "str", d |-> SolverRaisedPrefix \o c.emsg, l |-> <<>>]

\* lines 84-105: whether normalising raw calls the fallback
NormalizeFallsBack(r) ==
  \/ r.type = "None"
  \/ r.type = "other" /\ (r.d = <<>> \/ is_empty(r.d))

\* lines 84-105
Normalize(r, f) ==
  IF r.type \in {"tuple", "str", "other"} /\ ~NormalizeFallsBack(r)
  THEN <<r.d, IF r.type = "tuple" THEN r.l ELSE <<>> >>
  ELSE <<f.display, f.latex>>

\* line 108
NeedsFallback(d, l) == is_empty(d) \/ is_empty(l)

\* line 110
FallbackUsable(f) == f.display # <<>> /\ ~is_empty(f.display)

(***************************************************************************)
(* Inputs: the problem text, by what the code looks at in it, and the      *)
(* library's answers for it.                                               *)
(***************************************************************************)
SeqsUpTo(S, n) == UNION {[1..k -> S] : k \in 0..n}

\* problem.strip() is empty; "diff(" in problem; "integrate(" in problem
Problems ==
  {p \in [blank : BOOLEAN, hasDiff : BOOLEAN, hasInt : BOOLEAN] :
     p.blank => ~p.hasDiff /\ ~p.hasInt}

\* exception messages
Msgs == SeqsUpTo({"a", "}"}, MaxMsgLen)

\* renderings of a symbolic result: empty, blank, plain, padded, two lines, "[]"
PrettyTexts == {<<>>, <<" ">>, <<"a">>, <<" ", "a">>, <<"a", "\n", "a">>, <<"[", "]">>}
LatexTexts == {<<>>, <<" ">>, <<"a">>, <<"[", "]">>}

\* solution lists: n solutions, each binding the same v variables
SolLists == {<<>>} \cup {[i \in 1..n |-> v] : n \in 1..MaxSols, v \in 1..MaxVars}

FaultSets == {F \in SUBSET Ops : Cardinality(F) <= MaxFaults}

Cas(kind, free, isNumber, pt, lt, sols, listForm, faults, emsg) ==
  [kind |-> kind, free |-> free, isNumber |-> isNumber, prettyText |-> pt,
   latexText |-> lt, sols |-> sols, listForm |-> listForm, faults |-> faults,
   emsg |-> emsg]

\* every library call answers
SoundCas ==
  {Cas(k, f, FALSE, pt, lt, sl, lf, {}, <<>>) :
     k \in Kinds, f \in BOOLEAN, pt \in PrettyTexts, lt \in LatexTexts,
     sl \in SolLists, lf \in BOOLEAN}
  \cup
  {Cas(k, f, TRUE, NumText, NumText, sl, lf, {}, <<>>) :
     k \in Kinds, f \in BOOLEAN, sl \in SolLists, lf \in BOOLEAN}

\* the parser rejects the text
RejectingCas ==
  {Cas("Other", FALSE, FALSE, <<"a">>, <<"a">>, <<>>, TRUE, F, m) :
     F \in {G \in FaultSets : "sympify" \in G}, m \in Msgs}

\* the text parses and some later library call raises
FaultyCas ==
  {Cas(k, f, n, <<"a">>, <<"a">>, sl, TRUE, F, m) :
     k \in Kinds, f \in BOOLEAN, n \in BOOLEAN, sl \in {<<>>, <<1>>},
     F \in {G \in FaultSets : G # {} /\ "sympify" \notin G}, m \in Msgs}

CasFor(p) ==
  IF p.blank THEN RejectingCas ELSE SoundCas \cup RejectingCas \cup FaultyCas

Init ==
  /\ problem \in Problems
  /\ cas \in CasFor(problem)
  /\ (cas.sols = <<>> => cas.listForm)
  /\ pc = "input"
  /\ solved = NoCall
  /\ raw = NoRaw
  /\ display_text = <<>>
  /\ latex_text = <<>>
  /\ fb = NoCall
  /\ explanation = NoExplanation

(***************************************************************************)
(* The Solve button, step by step                                          *)
(***************************************************************************)
\* lines 74-75: nothing is computed for a blank problem
Warn ==
  /\ pc = "input"
  /\ problem.blank
  /\ pc' = "warned"
  /\ UNCHANGED <<problem, cas, solved, raw, display_text, latex_text, fb, explanation>>

\* lines 78-81
CallSolver ==
  /\ pc = "input"
  /\ ~problem.blank
  /\ solved' = solve_math_problem(problem, cas)
  /\ raw' = RawOf(solved', cas)
  /\ pc' = "normalize"
  /\ UNCHANGED <<problem, cas, display_text, latex_text, fb, explanation>>

\* lines 84-105
NormalizeStep ==
  /\ pc = "normalize"
  /\ LET f == sympy_fallback(problem, cas)
         n == Normalize(raw, f)
     IN /\ display_text' = n[1]
        /\ latex_text' = n[2]
        /\ fb' = IF NormalizeFallsBack(raw) THEN f ELSE fb
  /\ pc' = "fallback"
  /\ UNCHANGED <<problem, cas, solved, raw, explanation>>

\* lines 108-111
FallbackStep ==
  /\ pc = "fallback"
  /\ IF NeedsFallback(display_text, latex_text)
     THEN LET f == sympy_fallback(problem, cas)
          IN /\ fb' = f
             /\ display_text' = IF FallbackUsable(f) THEN f.display ELSE display_text
             /\ latex_text' = IF FallbackUsable(f) THEN f.latex ELSE latex_text
     ELSE UNCHANGED <<fb, display_text, latex_text>>
  /\ pc' = "explain"
  /\ UNCHANGED <<problem, cas, solved, raw, explanation>>

\* lines 139-146
Explain ==
  /\ pc = "explain"
  /\ explanation' = generate_explanation(problem, cas)
  /\ pc' = "done"
  /\ UNCHANGED <<problem, cas, solved, raw, display_text, latex_text, fb>>

Next == Warn \/ CallSolver \/ NormalizeStep \/ FallbackStep \/ Explain

Spec == Init /\ [][Next]_vars

(***************************************************************************)
(* The three functions applied to an input on their own, as app.py applies *)
(* the solver and the explanation generator                                *)
(***************************************************************************)
ApplySolve ==
  /\ solved = NoCall
  /\ solved' = solve_math_problem(problem, cas)
  /\ UNCHANGED <<problem, cas, pc, raw, display_text, latex_text, fb, explanation>>

ApplyFallback ==
  /\ fb = NoCall
  /\ fb' = sympy_fallback(problem, cas)
  /\ UNCHANGED <<problem, cas, pc, solved, raw, display_text, latex_text, explanation>>

ApplyExplain ==
  /\ explanation = NoExplanation
  /\ explanation' = generate_explanation(problem, cas)
  /\ UNCHANGED <<problem, cas, pc, solved, raw, display_text, latex_text, fb>>

NextCalls == ApplySolve \/ ApplyFallback \/ ApplyExplain

SpecCalls == Init /\ [][NextCalls]_vars

(***************************************************************************)
(* Claims                                                                  *)
(***************************************************************************)
Parsed == "sympify" \notin cas.faults
SolverCalled == solved # NoCall
PipelineRan == pc \in {"explain", "done"}

\* C1: solve_math_problem is total: whatever the library operations answer
\* or raise, the call returns a pair of two strings and nothing propagates
\* to the caller.
C1_SolverTotal ==
  SolverCalled =>
    /\ solved.ret = "tuple"
    /\ solved.display \in Seq(Chars)
    /\ solved.latex \in Seq(Chars)

\* a rendering step raised inside a handler and the call still returned a pair
C1_Witness ==
  /\ SolverCalled
  /\ solved.caught
  /\ solved.op = "latex"
  /\ solved.ret = "tuple"

RECURSIVE Unescape(_)
\* the text whose closing braces were escaped to give s
Unescape(s) ==
  IF s = <<>> THEN <<>>
  ELSE IF Len(s) >= 2 /\ s[1] = "\\" /\ s[2] = "}" THEN <<"}">> \o Unescape(Tail(Tail(s)))
  ELSE <<Head(s)>> \o Unescape(Tail(s))

\* every closing brace of s follows a backslash
BracesEscaped(s) == \A i \in 1..Len(s) : s[i] = "}" => (i > 1 /\ s[i - 1] = "\\")

\* C2: when parsing or a handler step raises with message m, the display is
\* "Error: " followed by m and the latex is that text inside \text{...} with
\* every closing brace escaped; so the display starts with "Error:" and the
\* latex with "\text{Error:".
C2_ErrorResult ==
  (SolverCalled /\ (solved.caught \/ ~Parsed)) =>
    LET d == solved.display
        l == solved.latex
        body == SubSeq(l, 7, Len(l) - 1)
    IN /\ solved.ret = "tuple"
       /\ d = <<"E", "r", "r", "o", "r", ":", " ">> \o cas.emsg
       /\ Len(l) >= 7
       /\ SubSeq(l, 1, 6) = <<"\\", "t", "e", "x", "t", "{">>
       /\ l[Len(l)] = "}"
       /\ BracesEscaped(body)
       /\ Unescape(body) = d
       /\ StartsWith(d, <<"E", "r", "r", "o", "r", ":">>)
       /\ StartsWith(l, <<"\\", "t", "e", "x", "t", "{", "E", "r", "r", "o", "r", ":">>)

\* the solver of an expression with symbols raised a message of two closing braces
C2_Witness ==
  /\ SolverCalled
  /\ solved.caught
  /\ solved.op = "solve"
  /\ solved.shape = "Symbols"
  /\ cas.emsg = <<"}", "}">>

RenderersNonEmpty == cas.prettyText # <<>> /\ cas.latexText # <<>>

\* C4: for a non-empty input the parser accepts, the display returned by
\* solve_math_problem is non-empty on every handler path, provided the
\* renderers return non-empty strings.
C4_DisplayNonEmpty ==
  (SolverCalled /\ ~problem.blank /\ Parsed /\ RenderersNonEmpty) =>
    solved.display # <<>>

\* C5: an Integral result that did not raise ends with " + C" in display and
\* latex; no other handler's result carries that suffix.
C5_IntegralSuffix ==
  (SolverCalled /\ Parsed /\ ~solved.caught) =>
    LET suffix == <<" ", "+", " ", "C">>
    IN IF solved.shape = "Integral"
       THEN EndsWith(solved.display, suffix) /\ EndsWith(solved.latex, suffix)
       ELSE ~EndsWith(solved.display, suffix) /\ ~EndsWith(solved.latex, suffix)

\* a two-line antiderivative was rendered on one line with the suffix
C5_Witness ==
  /\ SolverCalled
  /\ solved.shape = "Integral"
  /\ ~solved.caught
  /\ cas.prettyText = <<"a", "\n", "a">>
  /\ solved.display = <<"a", " ", "a", " ", "+", " ", "C">>

NoSolutionPair(r) ==
  /\ r.display = <<"N", "o", " ", "s", "o", "l", "u", "t", "i", "o", "n">>
  /\ r.latex = <<"\\", "t", "e", "x", "t", "{",
                 "N", "o", " ", "s", "o", "l", "u", "t", "i", "o", "n", "}">>

\* the library's solver answers with an empty solution list
SolverFindsNothing == "solve" \notin cas.faults /\ cas.sols = <<>>

\* C6 as stated: whenever the parsed form is an equality and the solver finds
\* no solution, the result is ("No solution", "\text{No solution}").
C6_Original ==
  (SolverCalled /\ Parsed /\ cas.kind = "Equality" /\ SolverFindsNothing) =>
    NoSolutionPair(solved)

\* C6 amended: whenever the parsed form is an equality, the text contains
\* neither "diff(" nor "integrate(", and the solver finds no solution, the
\* result is ("No solution", "\text{No solution}").
C6_Amended ==
  (SolverCalled /\ Parsed /\ cas.kind = "Equality" /\ SolverFindsNothing
     /\ ~problem.hasDiff /\ ~problem.hasInt) =>
    NoSolutionPair(solved)

\* an equality without the substrings, for which the solver found nothing
C6_Witness ==
  /\ SolverCalled
  /\ Parsed
  /\ cas.kind = "Equality"
  /\ SolverFindsNothing
  /\ ~problem.hasDiff
  /\ ~problem.hasInt
  /\ solved.shape = "Equality"
  /\ NoSolutionPair(solved)

\* C7: after the solver call, the normalisation and the fallback step have
\* run for a non-empty input, display_text and latex_text are not both empty.
C7_NeverBothEmpty ==
  (PipelineRan /\ ~problem.blank) => ~(display_text = <<>> /\ latex_text = <<>>)

\* C8: for an input that parses, generate_explanation takes the branch of
\* the shape whose handler solve_math_problem runs.
C8_SameShape ==
  (SolverCalled /\ explanation # NoExplanation /\ Parsed) =>
    explanation.branch = solved.shape

\* C9: when the solver returns a pair (d, l) whose d is not empty-looking,
\* the final display_text and latex_text are d and l; the fallback replaces
\* the solver's result only otherwise.
C9_SolverResultKept ==
  (PipelineRan /\ raw.type = "tuple" /\ ~is_empty(raw.d)) =>
    (display_text = raw.d /\ latex_text = raw.l)

\* C10: for an input that parses, _sympy_fallback selects the shape that
\* solve_math_problem selects.
C10_FallbackSameShape ==
  (SolverCalled /\ fb # NoCall /\ Parsed) => fb.shape = solved.shape

====
